---------------------------- MODULE Spec2Model ----------------------------
(***************************************************************************)
(* TuberCheck (src/app.py): a Flask application with three routes.         *)
(*   /          index()          renders the upload form                   *)
(*   /analyze   analyze_tuber()  preprocesses the uploads, calls the       *)
(*                               inference client, normalises the reply    *)
(*                               and stores it in the session              *)
(*   /results   results()        pops the stored result and renders it     *)
(*                                                                         *)
(* Text is modelled as a sequence of tokens.  Every token stands for the   *)
(* literal character string that is its value: the literals the regular    *)
(* expressions of analyze_tuber look for ("[VERDICT:", "]", "%", "<", ">", *)
(* "**", ":", ".", a digit, a blank, a line break, ...) and a few words.   *)
(* The tokens of a model text are chosen so that no pattern literal can    *)
(* match inside a token or across the boundary of two tokens, so matching  *)
(* on tokens is matching on the characters they stand for.                 *)
(***************************************************************************)
EXTENDS Integers, Sequences, FiniteSets

VARIABLES
    client,          \* module global `client`: "configured" or "None"
    session,         \* session['analysis_result'], or NoKey when absent
    reply,           \* what client.models.generate_content answers
    op,              \* the handler that ran last
    request,         \* request.files of the last /analyze
    content,         \* the list `content` of the last /analyze
    called,          \* generate_content was invoked by the last /analyze
    raised,          \* the exception raised inside the try block, or NoExc
    analysis_text,   \* local analysis_text after step 1 (tag removal)
    verdict_line,    \* local verdict_line
    clean_analysis,  \* local clean_analysis after step 6
    response,        \* what the last handler returned
    rendered         \* `result` handed to results.html by results()

vars == <<client, session, reply, op, request, content, called, raised,
          analysis_text, verdict_line, clean_analysis, response, rendered>>

-----------------------------------------------------------------------------
(* Tokens *)

VT == "[VERDICT:"
CT == "[CONFIDENCE:"
RB == "]"
PCT == "%"
SP == " "
NL == "\n"
LT == "<"
GT == ">"
BOLD == "**"
COLON == ":"
DOT == "."
MINUS == "-"
SEP == "---SEPARATOR---"
PV == "Provide a Verdict"
H4 == "h4"
SLASH_H4 == "/h4"

Digits == {"0", "1", "2", "3", "4", "5", "6", "7", "8", "9"}

\* session has no 'analysis_result' key (every stored string holds SEP)
NoKey == <<>>

\* a local that the last request never assigned
NoText == <<>>

\* no exception was raised
NoExc == [exc |-> "None", msg |-> <<>>]

-----------------------------------------------------------------------------
(* str and re primitives on token sequences *)

\* \s of the re module
IsWs(t) == t \in {SP, NL}

\* \d of the re module
IsDigit(t) == t \in Digits

\* greedy \s* from position i: the first position that is not whitespace
RECURSIVE SkipWs(_, _)
SkipWs(s, i) ==
    IF i > Len(s) \/ ~IsWs(s[i]) THEN i ELSE SkipWs(s, i + 1)

\* greedy \d* from position i: the first position that is not a digit
RECURSIVE SkipDigits(_, _)
SkipDigits(s, i) ==
    IF i > Len(s) \/ ~IsDigit(s[i]) THEN i ELSE SkipDigits(s, i + 1)

\* the last position <= j that is not whitespace (0 when there is none)
RECURSIVE LastNonWs(_, _)
LastNonWs(s, j) ==
    IF j < 1 \/ ~IsWs(s[j]) THEN j ELSE LastNonWs(s, j - 1)

\* str.strip()
Strip(s) == SubSeq(s, SkipWs(s, 1), LastNonWs(s, Len(s)))

\* the first position >= i holding token t (0 when there is none)
RECURSIVE IndexOf(_, _, _)
IndexOf(s, t, i) ==
    IF i > Len(s) THEN 0
    ELSE IF s[i] = t THEN i
    ELSE IndexOf(s, t, i + 1)

\* the first position m >= i with s[m] = "%" and s[m+1] = "]" (0 when none)
RECURSIVE FirstPctRb(_, _)
FirstPctRb(s, i) ==
    IF i + 1 > Len(s) THEN 0
    ELSE IF s[i] = PCT /\ s[i + 1] = RB THEN i
    ELSE FirstPctRb(s, i + 1)

\* lazy .*? followed by \]\s*\[CONFIDENCE:.*?%\] from position j (re.DOTALL):
\* the position of the closing "]" of the match, 0 when nothing matches.
\* The lazy quantifier tries every "]" in turn, the nearest first.
RECURSIVE VerdictTail(_, _)
VerdictTail(s, j) ==
    IF j > Len(s) THEN 0
    ELSE LET k == SkipWs(s, j + 1)
             m == IF s[j] = RB /\ k <= Len(s) /\ s[k] = CT
                  THEN FirstPctRb(s, k + 1) ELSE 0
         IN  IF m # 0 THEN m + 1 ELSE VerdictTail(s, j + 1)

\* lazy .*? followed by \*\*: from position p, "." not matching a line break:
\* the position of the closing "**" (0 when nothing matches)
RECURSIVE FirstBoldColon(_, _)
FirstBoldColon(s, p) ==
    IF p + 1 > Len(s) THEN 0
    ELSE IF s[p] = BOLD /\ s[p + 1] = COLON THEN p
    ELSE IF s[p] = NL THEN 0
    ELSE FirstBoldColon(s, p + 1)

\* ^ under re.MULTILINE
AtLineStart(s, i) == i = 1 \/ s[i - 1] = NL

\* <[^>]+> at position i: the last position of the match, 0 when none
TagMatchEnd(s, i) ==
    IF s[i] = LT /\ i + 1 <= Len(s) /\ s[i + 1] # GT
    THEN IndexOf(s, GT, i + 2)
    ELSE 0

\* \[VERDICT:.*?\]\s*\[CONFIDENCE:.*?%\] at position i
VerdictMatchEnd(s, i) ==
    IF s[i] = VT THEN VerdictTail(s, i + 1) ELSE 0

\* ^\d+\.\s+ at position i: the list marker without its bolded label
ListMarkerNoLabelMatchEnd(s, i) ==
    IF AtLineStart(s, i) /\ IsDigit(s[i])
    THEN LET d == SkipDigits(s, i)
             w == SkipWs(s, d + 1)
         IN  IF d <= Len(s) /\ s[d] = DOT /\ w > d + 1 THEN w - 1 ELSE 0
    ELSE 0

\* ^\d+\.\s+\*\*.*?\*\*:\s* at position i
ListMarkerMatchEnd(s, i) ==
    IF AtLineStart(s, i) /\ IsDigit(s[i])
    THEN LET d == SkipDigits(s, i)
             w == SkipWs(s, d + 1)
             p == IF d <= Len(s) /\ s[d] = DOT /\ w > d + 1
                     /\ w <= Len(s) /\ s[w] = BOLD
                  THEN FirstBoldColon(s, w + 1) ELSE 0
         IN  IF p # 0 THEN SkipWs(s, p + 2) - 1 ELSE 0
    ELSE 0

\* \*\*Provide a Verdict\*\*:\s* at position i
ProvideVerdictMatchEnd(s, i) ==
    IF i + 3 <= Len(s) /\ s[i] = BOLD /\ s[i + 1] = PV
       /\ s[i + 2] = BOLD /\ s[i + 3] = COLON
    THEN SkipWs(s, i + 4) - 1
    ELSE 0

\* \*\*(.*?)\*\*:\s* at position i
HeadingMatchEnd(s, i) ==
    IF s[i] = BOLD /\ FirstBoldColon(s, i + 1) # 0
    THEN SkipWs(s, FirstBoldColon(s, i + 1) + 2) - 1
    ELSE 0

\* greedy \n* from position i: the first position that is not a line break
RECURSIVE SkipNewlines(_, _)
SkipNewlines(s, i) ==
    IF i > Len(s) \/ s[i] # NL THEN i ELSE SkipNewlines(s, i + 1)

\* \n+ at position i
NewlinesMatchEnd(s, i) ==
    IF s[i] = NL THEN SkipNewlines(s, i) - 1 ELSE 0

\* the patterns of analyze_tuber, by name
MatchEnd(pat, s, i) ==
    CASE pat = "tag" -> TagMatchEnd(s, i)
      [] pat = "verdict" -> VerdictMatchEnd(s, i)
      [] pat = "listmarker" -> ListMarkerMatchEnd(s, i)
      [] pat = "provideverdict" -> ProvideVerdictMatchEnd(s, i)
      [] pat = "heading" -> HeadingMatchEnd(s, i)
      [] pat = "newlines" -> NewlinesMatchEnd(s, i)

\* the replacement of the match s[i..e] of pattern pat
Replacement(pat, s, i, e) ==
    CASE pat = "heading" ->
            <<LT, H4, GT>> \o SubSeq(s, i + 1, FirstBoldColon(s, i + 1) - 1)
                           \o <<LT, SLASH_H4, GT, NL>>
      [] pat = "newlines" -> <<NL, NL>>
      [] OTHER -> <<>>

\* re.sub(pat, repl, s): the non-overlapping matches, leftmost first,
\* replaced; from position i on
RECURSIVE ReSub(_, _, _)
ReSub(pat, s, i) ==
    IF i > Len(s) THEN <<>>
    ELSE LET e == MatchEnd(pat, s, i) IN
         IF e = 0 THEN <<s[i]>> \o ReSub(pat, s, i + 1)
         ELSE Replacement(pat, s, i, e) \o ReSub(pat, s, e + 1)

\* re.search(pat, s): the start of the leftmost match from i on, 0 when none
RECURSIVE ReSearch(_, _, _)
ReSearch(pat, s, i) ==
    IF i > Len(s) THEN 0
    ELSE IF MatchEnd(pat, s, i) # 0 THEN i
    ELSE ReSearch(pat, s, i + 1)


-----------------------------------------------------------------------------
(* The response clean-up of analyze_tuber, steps 1 to 7 *)

SentinelVerdict == <<VT, SP, "Error", RB, SP, CT, SP, "0", PCT, RB>>

\* step 1: re.sub(r'<[^>]+>', '', analysis_text)
StripTags(text) == ReSub("tag", text, 1)

\* step 2: verdict_match.group(0).strip() if verdict_match else the sentinel
ExtractVerdict(text) ==
    LET i == ReSearch("verdict", text, 1) IN
    IF i # 0 THEN Strip(SubSeq(text, i, MatchEnd("verdict", text, i)))
    ELSE SentinelVerdict

\* step 3: the verdict removed from the rest of the text
RemoveVerdict(text) == Strip(ReSub("verdict", text, 1))

\* step 4: the numbered list markers removed
StripListMarkers(text) == Strip(ReSub("listmarker", text, 1))

\* step 5a: the "Provide a Verdict" header removed
RemoveProvideVerdict(text) == Strip(ReSub("provideverdict", text, 1))

\* step 5b: the remaining bolded headers turned into h4 elements
PromoteHeadings(text) == Strip(ReSub("heading", text, 1))

\* step 6: runs of line breaks collapsed to a blank line
CollapseNewlines(text) == Strip(ReSub("newlines", text, 1))

\* steps 3 to 6
CleanAnalysis(text) ==
    CollapseNewlines(PromoteHeadings(RemoveProvideVerdict(
        StripListMarkers(RemoveVerdict(text)))))

\* step 7: f"{verdict_line}---SEPARATOR---{clean_analysis}"
FinalResult(verdict, clean) == verdict \o <<SEP>> \o clean


-----------------------------------------------------------------------------
(* optimize_image *)

MAX_SIZE == 1024

\* |a|
Abs(a) == IF a < 0 THEN -a ELSE a

\* PIL Image.thumbnail((MAX_SIZE, MAX_SIZE)): the size that preserves the
\* aspect ratio w/h within the box.  round_aspect takes floor or ceiling of
\* the scaled side, whichever keeps the ratio closer (the floor on a tie,
\* the floor 0 always), and at least 1.
ThumbnailSize(w, h) ==
    IF w <= h
    THEN LET f == (MAX_SIZE * w) \div h
             c == IF (MAX_SIZE * w) % h = 0 THEN f ELSE f + 1
             x == IF Abs(MAX_SIZE * w - f * h) <= Abs(MAX_SIZE * w - c * h)
                  THEN f ELSE c
         IN  <<IF x < 1 THEN 1 ELSE x, MAX_SIZE>>
    ELSE LET f == (MAX_SIZE * h) \div w
             c == IF (MAX_SIZE * h) % w = 0 THEN f ELSE f + 1
             y == IF f = 0 \/ Abs(w * f - MAX_SIZE * h) * c
                                <= Abs(w * c - MAX_SIZE * h) * f
                  THEN f ELSE c
         IN  <<MAX_SIZE, IF y < 1 THEN 1 ELSE y>>

\* image.width > MAX_SIZE[0] or image.height > MAX_SIZE[1]
NeedsResize(img) == img.width > MAX_SIZE \/ img.height > MAX_SIZE

\* image.mode in ('RGBA', 'P', 'LA')
NeedsConvert(mode) == mode \in {"RGBA", "P", "LA"}

\* the image optimize_image returns
OptimizeImage(img) ==
    LET size == IF NeedsResize(img)
                THEN ThumbnailSize(img.width, img.height)
                ELSE <<img.width, img.height>>
    IN  [img EXCEPT !.width = size[1], !.height = size[2],
                    !.mode = IF NeedsConvert(img.mode) THEN "RGB" ELSE @]


-----------------------------------------------------------------------------
(* Bounds and the inputs drawn within them *)

\* file parts in the 'photos' field of one request
MaxFiles == 2

\* fragments concatenated into one model reply
MaxFrags == 3

\* one file part of the multipart field 'photos'
Part(filename, data, mode, w, h) ==
    [filename |-> filename, data |-> data, mode |-> mode,
     width |-> w, height |-> h]

\* the file parts a request is built from: an empty file input, a file that
\* is no image, images of several modes and sizes
Uploads ==
    { Part("", "none", "none", 0, 0),
      Part("notes.txt", "garbage", "none", 0, 0),
      Part("a.jpg", "image", "RGB", 800, 600),
      Part("b.png", "image", "RGBA", 3000, 2000),
      Part("d.png", "image", "L", 640, 480) }

\* the sequences over S of length at most n
RECURSIVE SeqsUpTo(_, _)
SeqsUpTo(S, n) ==
    IF n = 0 THEN {<<>>}
    ELSE LET shorter == SeqsUpTo(S, n - 1)
         IN  shorter \cup {Append(q, x) : q \in shorter, x \in S}

\* request.files: the field 'photos' absent, or its parts
Requests ==
    {[has_photos |-> FALSE, photos |-> <<>>]}
        \cup {[has_photos |-> TRUE, photos |-> q] : q \in SeqsUpTo(Uploads, MaxFiles)}

NoRequest == [has_photos |-> FALSE, photos |-> <<>>]

\* a request with one usable photo
OnePhoto ==
    [has_photos |-> TRUE, photos |-> <<Part("a.jpg", "image", "RGB", 800, 600)>>]

\* the pieces model replies are concatenated from
Fragments ==
    { <<"a">>, <<SP>>, <<NL>>, <<LT>>, <<GT>>, <<BOLD>>, <<COLON>>, <<SEP>>,
      <<VT, SP, "Gall", RB>>,
      <<SP, CT, SP, "9", "2", PCT, RB>>,
      <<NL, CT, SP, "1", "5", "0", PCT, RB>>,
      <<SP, CT, SP, MINUS, "5", PCT, RB>>,
      <<"1", DOT, SP>>,
      <<"1", DOT, SP, BOLD, "Identify", BOLD, COLON, SP>>,
      <<BOLD, PV, BOLD, COLON, SP>>,
      <<BOLD, "Findings", BOLD, COLON, SP>> }

\* the concatenation of a sequence of sequences
RECURSIVE Concat(_)
Concat(q) == IF q = <<>> THEN <<>> ELSE Head(q) \o Concat(Tail(q))

\* the texts a model reply may carry
RawTexts == {Concat(q) : q \in SeqsUpTo(Fragments, MaxFrags)}

TextReply(t) == [kind |-> "text", text |-> t, exc |-> "None", msg |-> <<>>]
NoneTextReply == [kind |-> "none_text", text |-> <<>>, exc |-> "None", msg |-> <<>>]
ErrorReply(e, m) == [kind |-> "error", text |-> <<>>, exc |-> e, msg |-> m]
NoReply == [kind |-> "none", text |-> <<>>, exc |-> "None", msg |-> <<>>]

\* the exception classes the inference client raises; all derive from Exception
ExceptionClasses == {"TimeoutError", "ClientError", "ConnectionError", "TypeError"}

\* the replies drawn per request
Replies ==
    { TextReply(<<"Findings", SP, "here", DOT, SP, VT, SP, "Gall", SP, "Present",
                  RB, SP, CT, SP, "9", "2", PCT, RB>>),
      TextReply(<<"No", SP, "clear", SP, "marker", SP, "found", DOT>>),
      TextReply(<<SEP, "a">>),
      NoneTextReply,
      ErrorReply("ClientError", <<"429", SP, "quota", SP, "exceeded">>),
      ErrorReply("ConnectionError", <<SEP>>) }


-----------------------------------------------------------------------------
(* analyze_tuber *)

GALL_ANALYSIS_PROMPT == [prompt |-> "GALL_ANALYSIS_PROMPT"]

\* the check left out
ClientMissingNever(c) == FALSE

\* `if not client`
ClientMissing(c) == c = "None"

\* the error stored when the client is missing
ConfigErrorResult ==
    SentinelVerdict \o
    <<SEP, "Critical Error: AI service not configured. Check GEMINI_API_KEY.">>

\* 'photos' not in request.files or not request.files.getlist('photos')
NoFilesUploaded(req) == ~req.has_photos \/ req.photos = <<>>

\* Image.open(io.BytesIO(file.read())) returns an image
Opens(part) == part.data = "image"

\* the image Image.open returns
Decode(part) ==
    [mode |-> part.mode, width |-> part.width, height |-> part.height]

\* the loop body appends an image for this part: the filename is not empty
\* and nothing raises inside the try block
Usable(part) == part.filename # "" /\ Opens(part)

\* content after the loop over uploaded_files
RECURSIVE BuildContent(_)
BuildContent(files) ==
    IF files = <<>> THEN <<GALL_ANALYSIS_PROMPT>>
    ELSE LET front == BuildContent(SubSeq(files, 1, Len(files) - 1))
             last == files[Len(files)]
         IN  IF Usable(last)
             THEN Append(front, OptimizeImage(Decode(last)))
             ELSE front

\* len(content) == 0
NoUsableImagesOffByOne(c) == Len(c) = 0

\* len(content) == 1
NoUsableImages(c) == Len(c) = 1

\* `except` naming the client's own errors only
CaughtNarrow(e) == e.exc \in {"TimeoutError", "ClientError", "ConnectionError"}

\* `except Exception` catches e
Caught(e) == e.exc \in ExceptionClasses

\* the exception the try block raises on reply r, NoExc when it completes:
\* generate_content raises, or re.sub is handed response.text = None
RaisedBy(r) ==
    CASE r.kind = "error" -> [exc |-> r.exc, msg |-> r.msg]
      [] r.kind = "none_text" ->
            [exc |-> "TypeError",
             msg |-> <<"expected string or bytes-like object, got 'NoneType'">>]
      [] OTHER -> NoExc

\* f"Critical Error during AI Analysis: {type(e).__name__}: {str(e)}. Please ..."
ErrorMessage(e) ==
    <<"Critical Error during AI Analysis: ", e.exc, COLON, SP>> \o e.msg \o
    <<DOT, " Please check your Gemini API key and usage quota.">>

\* f"[VERDICT: Error] [CONFIDENCE: 0%]---SEPARATOR---{error_message}"
ErrorResult(e) == SentinelVerdict \o <<SEP>> \o ErrorMessage(e)

\* what a request that ends before the try block leaves behind
EndsEarly(resp) ==
    /\ response' = resp
    /\ content' = <<>>
    /\ called' = FALSE
    /\ raised' = NoExc
    /\ analysis_text' = NoText
    /\ verdict_line' = NoText
    /\ clean_analysis' = NoText
    /\ reply' = reply

\* POST /analyze with request.files = req, the inference client answering r
Analyze(req, r) ==
    /\ op' = "analyze"
    /\ request' = req
    /\ rendered' = NoText
    /\ client' = client
    /\ IF ClientMissing(client)
       THEN /\ session' = ConfigErrorResult
            /\ EndsEarly("redirect:results")
       ELSE IF NoFilesUploaded(req) \/ NoUsableImages(BuildContent(req.photos))
       THEN /\ session' = session
            /\ EndsEarly("redirect:index")
       ELSE /\ content' = BuildContent(req.photos)
            /\ called' = TRUE
            /\ reply' = r
            /\ raised' = RaisedBy(r)
            /\ IF RaisedBy(r) = NoExc
               THEN /\ analysis_text' = StripTags(r.text)
                    /\ verdict_line' = ExtractVerdict(analysis_text')
                    /\ clean_analysis' = CleanAnalysis(analysis_text')
                    /\ session' = FinalResult(verdict_line', clean_analysis')
                    /\ response' = "redirect:results"
               ELSE /\ analysis_text' = NoText
                    /\ verdict_line' = NoText
                    /\ clean_analysis' = NoText
                    /\ IF Caught(RaisedBy(r))
                       THEN /\ session' = ErrorResult(RaisedBy(r))
                            /\ response' = "redirect:results"
                       ELSE /\ session' = session
                            /\ response' = "error:500"

-----------------------------------------------------------------------------
(* results and index *)

DefaultResult ==
    SentinelVerdict \o
    <<SEP, "No analysis data found in session. This can happen if you navigate directly or if the session timed out. The image display feature has been temporarily removed to fix a critical server error (500). Please go back and upload an image.">>

\* session.pop('analysis_result', default_result): the value returned
Popped(sess) == IF sess = NoKey THEN DefaultResult ELSE sess

\* session.get('analysis_result', default_result): the session afterwards
AfterGet(sess) == sess

\* session.pop('analysis_result', default_result): the session afterwards
AfterPop(sess) == NoKey

\* what a handler that is not analyze_tuber leaves of the last request
NoAnalysis ==
    /\ request' = NoRequest
    /\ content' = <<>>
    /\ called' = FALSE
    /\ raised' = NoExc
    /\ analysis_text' = NoText
    /\ verdict_line' = NoText
    /\ clean_analysis' = NoText
    /\ UNCHANGED <<client, reply>>

\* GET /results
Results ==
    /\ op' = "results"
    /\ rendered' = Popped(session)
    /\ session' = AfterPop(session)
    /\ response' = "render:results.html"
    /\ NoAnalysis

\* GET /
Index ==
    /\ op' = "index"
    /\ rendered' = NoText
    /\ session' = session
    /\ response' = "render:index.html"
    /\ NoAnalysis

-----------------------------------------------------------------------------
(* Specifications *)

\* the state every behaviour starts from, but for the client and the reply
Started ==
    /\ session = NoKey
    /\ op = "none"
    /\ request = NoRequest
    /\ content = <<>>
    /\ called = FALSE
    /\ raised = NoExc
    /\ analysis_text = NoText
    /\ verdict_line = NoText
    /\ clean_analysis = NoText
    /\ response = "none"
    /\ rendered = NoText

\* genai.Client() succeeded at import, or raised and left client = None
Init ==
    /\ client \in {"configured", "None"}
    /\ reply = NoReply
    /\ Started

\* any request, the inference client answering any of Replies
Next ==
    \/ \E req \in Requests, r \in Replies : Analyze(req, r)
    \/ Results
    \/ Index

Spec == Init /\ [][Next]_vars

\* the client configured and its answer to come: any text of RawTexts
InitNorm ==
    /\ client = "configured"
    /\ reply \in {TextReply(t) : t \in RawTexts}
    /\ Started

\* requests with one photo, answered by the reply to come
NextNorm ==
    \/ Analyze(OnePhoto, reply)
    \/ Results

SpecNorm == InitNorm /\ [][NextNorm]_vars

-----------------------------------------------------------------------------
(* What the claims speak of *)

\* s holds sub as a contiguous run
Contains(s, sub) ==
    \E i \in 0..(Len(s) - Len(sub)) : SubSeq(s, i + 1, i + Len(sub)) = sub

\* what splitting a stored result on the separator gives first
VerdictPart(result) ==
    IF IndexOf(result, SEP, 1) = 0 THEN result
    ELSE SubSeq(result, 1, IndexOf(result, SEP, 1) - 1)

\* how often the separator occurs in s
SepCount(s) == Cardinality({i \in 1..Len(s) : s[i] = SEP})

\* the part has an empty filename or does not decode
Unusable(part) == part.filename = "" \/ part.data # "image"

\* no uploaded file survives preprocessing
NoFileSurvives(req) ==
    ~req.has_photos \/ \A i \in 1..Len(req.photos) : Unusable(req.photos[i])

\* the last request was an /analyze whose clean-up ran to its end
Normalised == op = "analyze" /\ called /\ raised = NoExc

\* the tokens of s that are not whitespace
NonWs(s) == SelectSeq(s, LAMBDA t : ~IsWs(t))

\* the tokens of s that are neither whitespace nor heading mark-up
Words(s) ==
    SelectSeq(s, LAMBDA t : ~IsWs(t) /\ t \notin {BOLD, COLON, LT, GT, H4, SLASH_H4})

\* s[i..j] are all whitespace
AllWs(s, i, j) == \A q \in i..j : IsWs(s[q])

\* s[i..j] are all digits
AllDigits(s, i, j) == \A q \in i..j : IsDigit(s[q])

\* the text holds something the extractor's pattern matches:
\* "[VERDICT:" ... "]" whitespace "[CONFIDENCE:" ... "%]"
HasVerdictPattern(s) ==
    \E i \in 1..Len(s) :
        /\ s[i] = VT
        /\ \E j \in (i + 1)..Len(s) :
              /\ s[j] = RB
              /\ \E k \in (j + 1)..Len(s) :
                    /\ s[k] = CT
                    /\ AllWs(s, j + 1, k - 1)
                    /\ \E m \in (k + 1)..(Len(s) - 1) : s[m] = PCT /\ s[m + 1] = RB

\* the verdict lines of the grammar in s, as <<first, last>> positions:
\* "[VERDICT: " free text up to "]", whitespace, "[CONFIDENCE: " digits "%]"
WellFormedLines(s) ==
    {w \in (1..Len(s)) \X (1..Len(s)) :
        LET a == w[1]
            b == w[2]
            r == IndexOf(s, RB, a + 2)
            k == SkipWs(s, r + 1)
        IN  /\ s[a] = VT
            /\ a + 1 <= Len(s) /\ s[a + 1] = SP
            /\ r # 0
            /\ k > r + 1
            /\ k + 1 <= Len(s) /\ s[k] = CT /\ s[k + 1] = SP
            /\ b = SkipDigits(s, k + 2) + 1
            /\ b > k + 3
            /\ b <= Len(s) /\ s[b - 1] = PCT /\ s[b] = RB}

\* the text has no bolded label followed by a colon ("**...**:")
NoBoldColon(s) == ~Contains(s, <<BOLD, COLON>>)

\* the number a run of digits denotes
RECURSIVE DigitsValue(_)
DigitsValue(d) ==
    IF d = <<>> THEN 0
    ELSE 10 * DigitsValue(SubSeq(d, 1, Len(d) - 1))
         + (CHOOSE n \in 0..9 :
               <<"0", "1", "2", "3", "4", "5", "6", "7", "8", "9">>[n + 1] = d[Len(d)])

\* the last position of token t in s (0 when there is none)
LastIndexOf(s, t) ==
    IF \E i \in 1..Len(s) : s[i] = t
    THEN CHOOSE i \in 1..Len(s) : s[i] = t /\ \A q \in (i + 1)..Len(s) : s[q] # t
    ELSE 0

\* the confidence a verdict line carries: the number between "[CONFIDENCE: "
\* and "%]", -1 when what stands there is no number
ConfidenceOf(v) ==
    LET k == LastIndexOf(v, CT)
        d == IF k = 0 THEN <<>> ELSE Strip(SubSeq(v, k + 1, Len(v) - 2))
    IN  IF d # <<>> /\ AllDigits(d, 1, Len(d)) THEN DigitsValue(d) ELSE -1

\* the tag-like runs of s that are not the <h4> and </h4> of heading
\* promotion: "<", one or more tokens that are not ">", ">"
ForeignTags(s) ==
    {w \in (1..Len(s)) \X (1..Len(s)) :
        /\ s[w[1]] = LT /\ s[w[2]] = GT
        /\ w[2] > w[1] + 1
        /\ \A q \in (w[1] + 1)..(w[2] - 1) : s[q] # GT
        /\ ~(w[2] = w[1] + 2 /\ s[w[1] + 1] \in {H4, SLASH_H4})}

\* the images of content, after the prompt
ImagesOf(c) == SubSeq(c, 2, Len(c))

\* the usable parts of a request, in upload order
Survivors(req) == SelectSeq(req.photos, Usable)

-----------------------------------------------------------------------------
(* The claims *)

\* C1 as stated: whenever no uploaded file survives preprocessing, the
\* request never calls inference, redirects to the index page and leaves
\* session['analysis_result'] as it was.
C1_NoSurvivorRedirectsToIndex ==
    [][(op' = "analyze" /\ NoFileSurvives(request'))
          => (~called' /\ response' = "redirect:index" /\ session' = session)]_vars

\* C1 amended: whenever no uploaded file survives preprocessing, the request
\* never calls inference; with the client configured it redirects to the
\* index page and leaves the session as it was, with the client missing it
\* stores the configuration error and redirects to the results page.
C1_NoSurvivorNoInference ==
    [][(op' = "analyze" /\ NoFileSurvives(request'))
          => /\ ~called'
             /\ client = "configured"
                   => (response' = "redirect:index" /\ session' = session)
             /\ client = "None"
                   => (response' = "redirect:results" /\ session' = ConfigErrorResult)]_vars

\* C1 witness: a configured client, two parts that do not survive, and a
\* result stored earlier still in the session
C1_Witness ==
    /\ op = "analyze" /\ client = "configured"
    /\ request.has_photos /\ Len(request.photos) = 2
    /\ NoFileSurvives(request)
    /\ response = "redirect:index" /\ ~called
    /\ session # NoKey

\* C2: with client None, every /analyze request stores a result whose
\* verdict line is the sentinel, redirects to the results page, and neither
\* calls inference nor raises.
C2_MissingClientStoresError ==
    (op = "analyze" /\ client = "None")
        => /\ session # NoKey
           /\ VerdictPart(session) = SentinelVerdict
           /\ response = "redirect:results"
           /\ ~called
           /\ raised = NoExc

\* C2 witness: client None and a request that carries a usable photo
C2_Witness ==
    /\ op = "analyze" /\ client = "None"
    /\ ~NoFileSurvives(request)
    /\ session = ConfigErrorResult

\* C3: whenever the inference call or the clean-up after it raises, the
\* request still redirects to the results page, and the session holds the
\* sentinel verdict line, the separator and a diagnostic naming the
\* failure's kind and message.
C3_FailureBecomesErrorResult ==
    (op = "analyze" /\ called /\ raised # NoExc)
        => /\ response = "redirect:results"
           /\ Len(session) > Len(SentinelVerdict) + 1
           /\ SubSeq(session, 1, Len(SentinelVerdict)) = SentinelVerdict
           /\ session[Len(SentinelVerdict) + 1] = SEP
           /\ Contains(SubSeq(session, Len(SentinelVerdict) + 2, Len(session)),
                       <<raised.exc, COLON, SP>> \o raised.msg)

\* C3 witness: the inference client raised a quota error
C3_Witness ==
    /\ op = "analyze" /\ called
    /\ raised.exc = "ClientError" /\ Contains(raised.msg, <<"quota">>)
    /\ response = "redirect:results"

\* C4: when the text holds a well-formed verdict line, the extracted verdict
\* line is exactly such a line, and no verdict line is left in the body.
C4_ExtractsExactVerdictLine ==
    (Normalised /\ WellFormedLines(analysis_text) # {})
        => /\ \E w \in WellFormedLines(analysis_text) :
                 verdict_line = SubSeq(analysis_text, w[1], w[2])
           /\ WellFormedLines(clean_analysis) = {}

C6_ConfidenceInRange ==
    Normalised => ConfidenceOf(verdict_line) \in 0..100

\* C7: the body holds no tag-like run other than the <h4> and </h4> that
\* heading promotion inserts.
C7_NoForeignTags ==
    Normalised => ForeignTags(clean_analysis) = {}

\* C8: every stored result holds the separator exactly once.
C8_OneSeparator ==
    session # NoKey => SepCount(session) = 1

\* C9: every image sent to inference is RGB and at most 1024 x 1024, and an
\* image that was within the bound has kept its size.
C9_ImagesRgbAndBounded ==
    (op = "analyze" /\ called)
        => /\ Len(ImagesOf(content)) = Len(Survivors(request))
           /\ \A i \in 1..Len(ImagesOf(content)) :
                 LET img == ImagesOf(content)[i]
                     src == Survivors(request)[i]
                 IN  /\ img.mode = "RGB"
                     /\ img.width <= MAX_SIZE /\ img.height <= MAX_SIZE
                     /\ (src.width <= MAX_SIZE /\ src.height <= MAX_SIZE)
                           => (img.width = src.width /\ img.height = src.height)

\* C10: /results removes the stored result when it reads it; once it is
\* removed, only an /analyze that stores a result brings one back, and until
\* then /results renders the default result.
C10_DisplayedAtMostOnce ==
    [][/\ op' = "results"
            => /\ session' = NoKey
               /\ rendered' = IF session = NoKey THEN DefaultResult ELSE session
       /\ (session = NoKey /\ session' # NoKey)
            => (op' = "analyze" /\ response' = "redirect:results")]_vars

\* C10 witness: a stored analysis was displayed and is gone from the session
C10_Witness ==
    /\ op = "results"
    /\ rendered # DefaultResult
    /\ VerdictPart(rendered) # SentinelVerdict
    /\ session = NoKey

=============================================================================
